---- MODULE Spec2Model ----
(***************************************************************************)
(* Model of bot.py: a Telegram bot that collects forwarded posts of one    *)
(* group in the module-level list `messages` and the Counter               *)
(* `word_counter`, and reports them with send_summary, which is started    *)
(* either by the /testsummary command handler or by a cron job.            *)
(*                                                                         *)
(* Text is modelled as a sequence of symbols.  A symbol is the blank " ",  *)
(* a word piece ("AI", "x", ...), a handle ("@u"), the dash "-" or a URL   *)
(* head ("http://u").  Adjacent non-blank symbols form one token, as       *)
(* adjacent characters do in Python.  Strings printed by the bot are TLA+  *)
(* strings built with \o.  Non-ASCII literals of the source are written    *)
(* in ASCII: the keywords "BiTeBi" and "JiaMi" stand for the two Chinese   *)
(* keywords of line 69, " -- " for the dash of line 43, "[link]" for the   *)
(* link emoji.                                                             *)
(***************************************************************************)
EXTENDS Integers, Sequences, FiniteSets, TLC

VARIABLES
    messages,       \* bot.py:34  list of display lines of the current period
    word_counter,   \* bot.py:35  Counter, as the sequence of its items in insertion order
    update_queue,   \* updates received by the Application and not yet handled
    handler,        \* the update being handled: the coroutine test_summary -> send_summary(context)
    created,        \* number of tasks made by the cron job that have not started yet
    job,            \* the task send_summary(None) that is executing
    outbox,         \* what context.bot.send_message delivered, oldest first
    pend,           \* history: for each line of messages, its arrival number and raw content
    arrivals,       \* history: number of updates that arrived so far
    reported,       \* history: arrival number -> number of delivered reports that contain it
    calls,          \* history: the last finished send_summary invocations, oldest first
    fired,          \* history: number of send_summary invocations started so far
    failedPending,  \* history: the lines pending at the last failed dispatch since the last reset
    lastReport,     \* history: the last delivered non-empty report and what it retried
    accepted,       \* history: arrival numbers of the messages appended to messages
    tin,            \* tally specification: the content of the last update_word_counter call
    tpre,           \* tally specification: word_counter before that call
    xin,            \* extract specification: the description of the forwarded post being typed
    xout,           \* extract specification: the last description extracted and the result
    env             \* bot.py:14  names of the environment variables that are set

vars == <<messages, word_counter, update_queue, handler, created, job, outbox,
          pend, arrivals, reported, calls, fired, failedPending, lastReport, accepted, tin, tpre,
                   xin, xout, env>>

----------------------------------------------------------------------------
(* Program constants *)

\* the environment variables of bot.py:18-19
Environment == {"GROUP_ID", "SUMMARY_CHAT_ID"}

\* the chat of the monitored group and the chat of the reports
GroupChat == 1
ReportChat == 2
\* a chat that is not the monitored group
OtherChat == GroupChat + 2

\* bot.py:18-19  the default of os.getenv
DefaultId == 0

\* bot.py:18
GROUP_ID == IF "GROUP_ID" \in env THEN GroupChat ELSE DefaultId

\* bot.py:19
SUMMARY_CHAT_ID == IF "SUMMARY_CHAT_ID" \in env THEN ReportChat ELSE DefaultId

\* bot.py:69
common_keywords == <<"AI", "BiTeBi", "JiaMi", "ETH", "BTC", "Layer2">>

\* bot.py:48  content.split()[:10]
TitleWords == 10

\* bot.py:103  most_common(3)
TopN == 3

\* bot.py:89
FallbackMarker == "(summary generation failed)"

\* bot.py:120
NoMessagesNotice == "No new messages today."

None == "None"

----------------------------------------------------------------------------
(* Bounds *)

MaxContentLen == 2      \* symbols in a content of the tally specification
MaxTally == 4           \* sum of the counts of word_counter in the tally specification
MaxArrivals == 2        \* updates that arrive in one behaviour
MaxQueue == 2           \* updates waiting in update_queue
MaxFired == 2           \* send_summary invocations in one behaviour
MaxCreated == 1         \* cron tasks waiting to start
MaxTokens == 12         \* tokens in a description of the extract specification
MaxExtraBlanks == 1     \* blanks beyond one per gap in such a description

----------------------------------------------------------------------------
(* Helpers on sequences *)

Range(s) == {s[i] : i \in 1..Len(s)}

Min(a, b) == IF a < b THEN a ELSE b

IsPrefix(s, t) == Len(s) <= Len(t) /\ SubSeq(t, 1, Len(s)) = s

SeqsUpTo(S, n) == UNION {[1..k -> S] : k \in 0..n}

IsSpace(sym) == sym = " "

----------------------------------------------------------------------------
(* str.split() and " ".join() *)

RECURSIVE SplitFrom(_, _, _, _)
SplitFrom(s, i, cur, words) ==
    IF i > Len(s)
    THEN IF cur = "" THEN words ELSE Append(words, cur)
    ELSE IF IsSpace(s[i])
         THEN SplitFrom(s, i + 1, "", IF cur = "" THEN words ELSE Append(words, cur))
         ELSE SplitFrom(s, i + 1, cur \o s[i], words)

\* str.split() without arguments: the maximal runs of non-blank characters
split(s) == SplitFrom(s, 1, "", <<>>)

RECURSIVE join(_, _)
join(sep, words) ==
    IF Len(words) = 0 THEN ""
    ELSE IF Len(words) = 1 THEN words[1]
    ELSE words[1] \o sep \o join(sep, Tail(words))

\* as summarize_content, but all the words are kept
summarize_content_all(content) == join(" ", split(content))

\* bot.py:46-49
summarize_content(content) ==
    LET words == SubSeq(split(content), 1, Min(TitleWords, Len(split(content))))
    IN  join(" ", words)

----------------------------------------------------------------------------
(* extract_tweet_info: re.search(r"(.+?) (@\w+) - (https?://\S+)", text) *)

IsHandle(sym) == sym = "@u"
IsUrlHead(sym) == sym = "http://u"

\* the pattern " (@\w+) - (https?://" matches at position j of text
TailAt(text, j) ==
    /\ j + 5 <= Len(text)
    /\ text[j] = " "
    /\ IsHandle(text[j + 1])
    /\ text[j + 2] = " "
    /\ text[j + 3] = "-"
    /\ text[j + 4] = " "
    /\ IsUrlHead(text[j + 5])

\* (.+?) is not empty, so the tail starts at position 2 or later
MatchEnds(text) == {j \in 2..Len(text) : TailAt(text, j)}

RECURSIVE NonSpaceRun(_, _)
\* \S+ : the symbols from position i up to the next blank
NonSpaceRun(text, i) ==
    IF i > Len(text) \/ IsSpace(text[i]) THEN ""
    ELSE text[i] \o NonSpaceRun(text, i + 1)

\* bot.py:37-44; the result is <<display line, content>> or <<None, None>>
extract_tweet_info(text) ==
    IF MatchEnds(text) = {} THEN <<None, None>>
    ELSE LET j == CHOOSE m \in MatchEnds(text) : \A n \in MatchEnds(text) : m <= n
             content == SubSeq(text, 1, j - 1)
             username == text[j + 1]
             link == NonSpaceRun(text, j + 5)
         IN  <<summarize_content(content) \o " -- " \o username \o " [link] (" \o link \o ")",
               content>>

----------------------------------------------------------------------------
(* collections.Counter, as the sequence of its items in insertion order *)

CounterKeys(c) == {c[i].word : i \in 1..Len(c)}

\* Counter.__getitem__: 0 for a missing key
CounterGet(c, w) ==
    IF w \in CounterKeys(c)
    THEN (CHOOSE e \in Range(c) : e.word = w).count
    ELSE 0

\* word_counter[word] += 1
CounterIncr(c, w) ==
    IF w \in CounterKeys(c)
    THEN [i \in 1..Len(c) |-> IF c[i].word = w THEN [c[i] EXCEPT !.count = @ + 1] ELSE c[i]]
    ELSE Append(c, [word |-> w, count |-> 1])

CounterTotal(c) ==
    LET RECURSIVE Sum(_)
        Sum(i) == IF i = 0 THEN 0 ELSE c[i].count + Sum(i - 1)
    IN  Sum(Len(c))

RECURSIVE CountWords_any(_, _)
\* as CountWords, but every word is counted
CountWords_any(c, words) ==
    IF words = <<>> THEN c
    ELSE CountWords_any(CounterIncr(c, Head(words)), Tail(words))

RECURSIVE CountWords(_, _)
\* bot.py:71-73
CountWords(c, words) ==
    IF words = <<>> THEN c
    ELSE CountWords(IF Head(words) \in Range(common_keywords)
                    THEN CounterIncr(c, Head(words))
                    ELSE c,
                    Tail(words))

RECURSIVE Distinct(_)
Distinct(words) ==
    IF words = <<>> THEN <<>>
    ELSE IF Head(words) \in Range(Tail(words)) THEN Distinct(Tail(words))
    ELSE <<Head(words)>> \o Distinct(Tail(words))

\* as update_word_counter, but a word is counted once per content
update_word_counter_once(c, content) == CountWords(c, Distinct(split(content)))

\* bot.py:67-73
update_word_counter(c, content) == CountWords(c, split(content))

VocabIndex(w) == CHOOSE i \in 1..Len(common_keywords) : common_keywords[i] = w

RECURSIVE most_common_vocabulary(_, _)
\* as most_common, but the item that comes earlier in common_keywords first among equals
most_common_vocabulary(c, n) ==
    IF n = 0 \/ c = <<>> THEN <<>>
    ELSE LET best == CHOOSE i \in 1..Len(c) :
                         \A k \in 1..Len(c) :
                             \/ c[k].count < c[i].count
                             \/ /\ c[k].count = c[i].count
                                /\ VocabIndex(c[i].word) <= VocabIndex(c[k].word)
             rest == [k \in 1..(Len(c) - 1) |-> IF k < best THEN c[k] ELSE c[k + 1]]
         IN  <<c[best]>> \o most_common_vocabulary(rest, n - 1)

RECURSIVE most_common(_, _)
\* Counter.most_common(n) = heapq.nlargest(n, items, key=count): the n items of
\* largest count, an item that comes earlier in the Counter first among equals
most_common(c, n) ==
    IF n = 0 \/ c = <<>> THEN <<>>
    ELSE LET best == CHOOSE i \in 1..Len(c) :
                         /\ \A k \in 1..Len(c) : c[k].count <= c[i].count
                         /\ \A k \in 1..(i - 1) : c[k].count < c[i].count
             rest == [k \in 1..(Len(c) - 1) |-> IF k < best THEN c[k] ELSE c[k + 1]]
         IN  <<c[best]>> \o most_common(rest, n - 1)

----------------------------------------------------------------------------
(* Report text, bot.py:96-111 *)

\* as summary_text, but the lines are numbered from 0
summary_text_zero(msgs) ==
    join("\n", [i \in 1..Len(msgs) |-> ToString(i - 1) \o ". " \o msgs[i]])

\* bot.py:96
summary_text(msgs) ==
    join("\n", [i \in 1..Len(msgs) |-> ToString(i) \o ". " \o msgs[i]])

\* bot.py:82  the user message given to the model
user_prompt(text) == "Summarize in 50 words or fewer:\n" \o text

\* bot.py:75-89; raised tells whether the OpenAI call raised
generate_summary(text, raised) ==
    IF raised THEN FallbackMarker ELSE "digest"

\* bot.py:103
most_common_words(c) ==
    LET top == most_common(c, TopN)
    IN  join(", ", [i \in 1..Len(top) |->
                        top[i].word \o " mentioned " \o ToString(top[i].count) \o " times"])

\* bot.py:105-111
summary_message(text, total, words, ai_summary) ==
    "[date] summary of the day\n\n"
        \o text \o "\n\n"
        \o "==\n\n"
        \o "* " \o ToString(total) \o " messages in total, repeated keywords: " \o words \o "\n\n"
        \o "AI summary: " \o ai_summary

----------------------------------------------------------------------------
(* Inputs *)

\* a forwarded post with the given content
Fwd(content) == content \o <<" ", "@u", " ", "-", " ", "http://u">>

Texts == {Fwd(<<"AI">>), Fwd(<<"BTC", " ", "AI">>), <<"AI", " ", "x">>}

TextUpdates ==
    {[kind |-> "text", chat |-> GroupChat, text |-> t, no |-> 0] : t \in Texts}
        \cup {[kind |-> "text", chat |-> OtherChat, text |-> Fwd(<<"AI">>), no |-> 0]}

Command == [kind |-> "cmd", chat |-> OtherChat, text |-> <<"/testsummary">>, no |-> 0]

----------------------------------------------------------------------------
(* State of a send_summary coroutine *)

NoStart == [messages |-> <<>>, word_counter |-> <<>>, pend |-> <<>>, sent |-> 0, arrivals |-> 0]

NoParts == [lines |-> <<>>, total |-> 0, top |-> <<>>]

\* pc: where the coroutine stands; text: summary_text, then the message to send;
\* ai: outcome of generate_summary; prompt: what generate_summary asked the
\* model; start, parts: history of the invocation
Idle == [pc |-> "idle", text |-> "", ai |-> "none", prompt |-> "", start |-> NoStart,
         parts |-> NoParts]

Start == [messages |-> messages, word_counter |-> word_counter, pend |-> pend,
          sent |-> Len(outbox), arrivals |-> arrivals]

\* bot.py:95-99: send_summary up to the call of generate_summary, or, with an
\* empty list, up to the send_message of line 120
Begun ==
    IF messages # <<>>
    THEN [pc |-> "generate", text |-> summary_text(messages), ai |-> "none", prompt |-> "",
          start |-> Start, parts |-> [NoParts EXCEPT !.lines = messages]]
    ELSE [pc |-> "await_notice", text |-> NoMessagesNotice, ai |-> "none", prompt |-> "",
          start |-> Start, parts |-> NoParts]

\* as Composed, but an exception of the OpenAI call ends the coroutine
Composed_abort(co, raised) ==
    IF raised
    THEN [co EXCEPT !.pc = "idle", !.ai = "fail"]
    ELSE [co EXCEPT !.pc = "await_send",
                    !.ai = "ok",
                    !.prompt = user_prompt(co.text),
                    !.text = summary_message(co.text, Len(messages),
                                             most_common_words(word_counter),
                                             generate_summary(co.text, raised)),
                    !.parts = [lines |-> co.parts.lines, total |-> Len(messages),
                               top |-> most_common(word_counter, TopN)]]

\* bot.py:99-113: generate_summary returned; the message is composed
Composed(co, raised) ==
    [co EXCEPT !.pc = "await_send",
               !.ai = IF raised THEN "fail" ELSE "ok",
               !.prompt = user_prompt(co.text),
               !.text = summary_message(co.text, Len(messages),
                                        most_common_words(word_counter),
                                        generate_summary(co.text, raised)),
               !.parts = [lines |-> co.parts.lines, total |-> Len(messages),
                          top |-> most_common(word_counter, TopN)]]

\* the event loop is held by a coroutine that is inside the blocking OpenAI call
LoopBlocked == handler.pc = "generate" \/ job.pc = "generate"

\* record of a finished invocation: what it started from, the outcomes of the
\* summarizer and of the transport, the prompt and the message it composed,
\* what it sent, whether it raised, what it added to the outbox, and the
\* state it left
Call(trigger, co, net, sent, raised, msgs, counter, out) ==
    [trigger |-> trigger,
     pre_messages |-> co.start.messages, pre_counter |-> co.start.word_counter,
     pre_contents |-> [i \in 1..Len(co.start.pend) |-> co.start.pend[i].content],
     ai |-> co.ai, prompt |-> co.prompt, net |-> net, report |-> co.text, sent |-> sent,
     raised |-> raised,
     delivered |-> Len(out) - co.start.sent,
     outgoing |-> SubSeq(out, co.start.sent + 1, Len(out)),
     post_messages |-> msgs, post_counter |-> counter]

\* the last two finished invocations
Push(c) == IF Len(calls) < 2 THEN Append(calls, c) ELSE <<calls[2], c>>

EmptyReport == [lines |-> <<>>, contents |-> <<>>, total |-> 0, top |-> <<>>,
                ai |-> "none", retried |-> <<>>, begun |-> 0, ended |-> 0]

----------------------------------------------------------------------------
(* Initial state, bot.py:34-35 *)

\* bot.py:34-35, 127-143  the process has started and polls for updates
Started ==
    /\ messages = <<>>
    /\ word_counter = <<>>
    /\ update_queue = <<>>
    /\ handler = Idle
    /\ created = 0
    /\ job = Idle
    /\ outbox = <<>>
    /\ pend = <<>>
    /\ arrivals = 0
    /\ reported = [n \in 1..MaxArrivals |-> 0]
    /\ calls = <<>>
    /\ fired = 0
    /\ failedPending = <<>>
    /\ lastReport = EmptyReport
    /\ accepted = {}
    /\ tin = <<>>
    /\ tpre = <<>>
    /\ xin = <<>>
    /\ xout = [desc |-> <<>>, res |-> <<None, None>>]

\* both identifiers are configured
Init == env = Environment /\ Started

----------------------------------------------------------------------------
(* Arrival of updates and the cron job *)

\* a text message reaches the bot
ArriveText ==
    /\ arrivals < MaxArrivals
    /\ Len(update_queue) < MaxQueue
    /\ \E u \in TextUpdates :
           update_queue' = Append(update_queue, [u EXCEPT !.no = arrivals + 1])
    /\ arrivals' = arrivals + 1
    /\ UNCHANGED <<messages, word_counter, handler, created, job, outbox, pend,
                   reported, calls, fired, failedPending, lastReport, accepted, tin, tpre,
                   xin, xout, env>>

\* a /testsummary command reaches the bot
ArriveCommand ==
    /\ fired < MaxFired
    /\ Len(update_queue) < MaxQueue
    /\ update_queue' = Append(update_queue, Command)
    /\ fired' = fired + 1
    /\ UNCHANGED <<messages, word_counter, handler, created, job, outbox, pend,
                   arrivals, reported, calls, failedPending, lastReport, accepted, tin, tpre,
                   xin, xout, env>>

\* bot.py:139  the cron job runs app.create_task(send_summary(None))
CronFire ==
    /\ fired < MaxFired
    /\ created < MaxCreated
    /\ created' = created + 1
    /\ fired' = fired + 1
    /\ UNCHANGED <<messages, word_counter, update_queue, handler, job, outbox, pend,
                   arrivals, reported, calls, failedPending, lastReport, accepted, tin, tpre,
                   xin, xout, env>>

----------------------------------------------------------------------------
(* Handling of updates.  The Application of bot.py:129 is built without     *)
(* concurrent_updates and the handlers of bot.py:132-135 are blocking: an   *)
(* update is taken from the queue when the handler of the previous one has  *)
(* returned.                                                                *)

\* as CanFetch, but an update is handled while the handler of another is suspended
CanFetchConcurrent ==
    /\ update_queue # <<>>
    /\ handler.pc \in {"idle", "await_send", "await_notice"}
    /\ ~LoopBlocked

CanFetch ==
    /\ update_queue # <<>>
    /\ handler.pc = "idle"
    /\ ~LoopBlocked

\* as handle_message, but the line is put at the front of the list
handle_message_front(u) ==
    IF u.chat = GROUP_ID
    THEN LET info == extract_tweet_info(u.text)
         IN  IF info[1] # None /\ info[1] # ""
             THEN <<<<info[1]>> \o messages, update_word_counter(word_counter, info[2])>>
             ELSE <<messages, word_counter>>
    ELSE <<messages, word_counter>>

\* as handle_message, but the list is overwritten by the new line
handle_message_latest(u) ==
    IF u.chat = GROUP_ID
    THEN LET info == extract_tweet_info(u.text)
         IN  IF info[1] # None /\ info[1] # ""
             THEN <<<<info[1]>>, update_word_counter(word_counter, info[2])>>
             ELSE <<messages, word_counter>>
    ELSE <<messages, word_counter>>

\* as handle_message, but the keywords of a text that is no forwarded post are counted
handle_message_counting(u) ==
    IF u.chat = GROUP_ID
    THEN LET info == extract_tweet_info(u.text)
         IN  IF info[1] # None /\ info[1] # ""
             THEN <<Append(messages, info[1]), update_word_counter(word_counter, info[2])>>
             ELSE <<messages, update_word_counter(word_counter, u.text)>>
    ELSE <<messages, word_counter>>

\* bot.py:51-65; u is the update, the result is <<messages, word_counter>>
handle_message(u) ==
    IF u.chat = GROUP_ID
    THEN LET info == extract_tweet_info(u.text)
         IN  IF info[1] # None /\ info[1] # ""
             THEN <<Append(messages, info[1]), update_word_counter(word_counter, info[2])>>
             ELSE <<messages, word_counter>>
    ELSE <<messages, word_counter>>

\* bot.py:135  filters.Chat(GROUP_ID) & filters.TEXT
PassesFilter(u) == u.kind = "text" /\ u.chat = GROUP_ID

\* a message of the group that is a forwarded post
HandleRelevant ==
    /\ CanFetch
    /\ LET u == Head(update_queue)
       IN  /\ PassesFilter(u)
           /\ handle_message(u)[1] # messages
           /\ messages' = handle_message(u)[1]
           /\ word_counter' = handle_message(u)[2]
           /\ pend' = Append(pend, [no |-> u.no, content |-> extract_tweet_info(u.text)[2]])
           /\ accepted' = accepted \cup {u.no}
    /\ update_queue' = Tail(update_queue)
    /\ UNCHANGED <<handler, created, job, outbox, arrivals, reported, calls, fired,
                   failedPending, lastReport, tin, tpre,
                   xin, xout, env>>

\* a message of the group that is not a forwarded post
HandleIgnored ==
    /\ CanFetch
    /\ LET u == Head(update_queue)
       IN  /\ PassesFilter(u)
           /\ handle_message(u)[1] = messages
           /\ messages' = handle_message(u)[1]
           /\ word_counter' = handle_message(u)[2]
    /\ update_queue' = Tail(update_queue)
    /\ UNCHANGED <<handler, created, job, outbox, pend, arrivals, reported, calls, fired,
                   failedPending, lastReport, accepted, tin, tpre,
                   xin, xout, env>>

\* a text message of another chat: no handler of bot.py:132-135 takes it
DropUnhandled ==
    /\ CanFetch
    /\ LET u == Head(update_queue)
       IN  u.kind = "text" /\ ~PassesFilter(u)
    /\ update_queue' = Tail(update_queue)
    /\ UNCHANGED <<messages, word_counter, handler, created, job, outbox, pend,
                   arrivals, reported, calls, fired, failedPending, lastReport, accepted, tin, tpre,
                   xin, xout, env>>

----------------------------------------------------------------------------
(* send_summary(context) started by /testsummary, bot.py:123-125 *)

\* bot.py:132, 123-125, 93-99 / 120
ManualBegin ==
    /\ CanFetch
    /\ Head(update_queue).kind = "cmd"
    /\ update_queue' = Tail(update_queue)
    /\ handler' = Begun
    /\ UNCHANGED <<messages, word_counter, created, job, outbox, pend, arrivals,
                   reported, calls, fired, failedPending, lastReport, accepted, tin, tpre,
                   xin, xout, env>>

\* bot.py:99-113
ManualGenerate ==
    /\ handler.pc = "generate"
    /\ \E raised \in BOOLEAN : handler' = Composed(handler, raised)
    /\ UNCHANGED <<messages, word_counter, update_queue, created, job, outbox, pend,
                   arrivals, reported, calls, fired, failedPending, lastReport, accepted, tin, tpre,
                   xin, xout, env>>

\* as SendDelivered, but word_counter is not cleared
SendDeliveredPartial ==
    /\ handler.pc = "await_send"
    /\ ~LoopBlocked
    /\ outbox' = Append(outbox, [chat |-> SUMMARY_CHAT_ID, text |-> handler.text])
    /\ messages' = <<>>
    /\ pend' = <<>>
    /\ reported' = [n \in DOMAIN reported |->
                        IF n \in {handler.start.pend[i].no : i \in 1..Len(handler.start.pend)}
                        THEN reported[n] + 1 ELSE reported[n]]
    /\ lastReport' = [lines |-> handler.parts.lines,
                      contents |-> [i \in 1..Len(handler.start.pend) |->
                                        handler.start.pend[i].content],
                      total |-> handler.parts.total,
                      top |-> handler.parts.top,
                      ai |-> handler.ai,
                      retried |-> failedPending,
                      begun |-> handler.start.arrivals,
                      ended |-> arrivals]
    /\ failedPending' = <<>>
    /\ calls' = Push(Call("manual", handler, "ok", handler.text, FALSE, messages',
                          word_counter, outbox'))
    /\ handler' = Idle
    /\ UNCHANGED <<word_counter, update_queue, created, job, arrivals, fired, accepted,
                   tin, tpre,
                   xin, xout, env>>

\* bot.py:113-118  send_message returned: the report is delivered, the state is cleared
SendDelivered ==
    /\ handler.pc = "await_send"
    /\ ~LoopBlocked
    /\ outbox' = Append(outbox, [chat |-> SUMMARY_CHAT_ID, text |-> handler.text])
    /\ messages' = <<>>
    /\ word_counter' = <<>>
    /\ pend' = <<>>
    /\ reported' = [n \in DOMAIN reported |->
                        IF n \in {handler.start.pend[i].no : i \in 1..Len(handler.start.pend)}
                        THEN reported[n] + 1 ELSE reported[n]]
    /\ lastReport' = [lines |-> handler.parts.lines,
                      contents |-> [i \in 1..Len(handler.start.pend) |->
                                        handler.start.pend[i].content],
                      total |-> handler.parts.total,
                      top |-> handler.parts.top,
                      ai |-> handler.ai,
                      retried |-> failedPending,
                      begun |-> handler.start.arrivals,
                      ended |-> arrivals]
    /\ failedPending' = <<>>
    /\ calls' = Push(Call("manual", handler, "ok", handler.text, FALSE, messages', word_counter', outbox'))
    /\ handler' = Idle
    /\ UNCHANGED <<update_queue, created, job, arrivals, fired, accepted, tin, tpre,
                   xin, xout, env>>

\* as SendFailed, but the lists are cleared although send_message raised
SendFailedCleared ==
    /\ handler.pc = "await_send"
    /\ ~LoopBlocked
    /\ messages' = <<>>
    /\ word_counter' = <<>>
    /\ pend' = <<>>
    /\ failedPending' = messages
    /\ calls' = Push(Call("manual", handler, "fail", "", TRUE, messages', word_counter', outbox))
    /\ handler' = Idle
    /\ UNCHANGED <<update_queue, created, job, outbox, arrivals, reported, fired,
                   lastReport, accepted, tin, tpre,
                   xin, xout, env>>

\* as SendFailed, but the handler does not return
SendFailedStuck ==
    /\ handler.pc = "await_send"
    /\ ~LoopBlocked
    /\ failedPending' = messages
    /\ calls' = Push(Call("manual", handler, "fail", "", TRUE, messages, word_counter, outbox))
    /\ handler' = [handler EXCEPT !.pc = "raised"]
    /\ UNCHANGED <<messages, word_counter, update_queue, created, job, outbox, pend,
                   arrivals, reported, fired, lastReport, accepted, tin, tpre,
                   xin, xout, env>>

\* bot.py:113  send_message raised: the exception leaves send_summary and test_summary
SendFailed ==
    /\ handler.pc = "await_send"
    /\ ~LoopBlocked
    /\ failedPending' = messages
    /\ calls' = Push(Call("manual", handler, "fail", "", TRUE, messages, word_counter, outbox))
    /\ handler' = Idle
    /\ UNCHANGED <<messages, word_counter, update_queue, created, job, outbox, pend,
                   arrivals, reported, fired, lastReport, accepted, tin, tpre,
                   xin, xout, env>>

\* bot.py:120-121  the notice is delivered
NoticeDelivered ==
    /\ handler.pc = "await_notice"
    /\ ~LoopBlocked
    /\ outbox' = Append(outbox, [chat |-> SUMMARY_CHAT_ID, text |-> handler.text])
    /\ calls' = Push(Call("manual", handler, "ok", handler.text, FALSE, messages, word_counter, outbox'))
    /\ handler' = Idle
    /\ UNCHANGED <<messages, word_counter, update_queue, created, job, pend, arrivals,
                   reported, fired, failedPending, lastReport, accepted, tin, tpre,
                   xin, xout, env>>

\* bot.py:120  send_message raised
NoticeFailed ==
    /\ handler.pc = "await_notice"
    /\ ~LoopBlocked
    /\ calls' = Push(Call("manual", handler, "fail", "", TRUE, messages, word_counter, outbox))
    /\ handler' = Idle
    /\ UNCHANGED <<messages, word_counter, update_queue, created, job, outbox, pend,
                   arrivals, reported, fired, failedPending, lastReport, accepted, tin, tpre,
                   xin, xout, env>>

----------------------------------------------------------------------------
(* send_summary(None) started by the cron job, bot.py:139.  context is None, *)
(* so context.bot of lines 113 and 120 raises AttributeError before          *)
(* send_message is called; net is the answer the transport would have given. *)

\* bot.py:93-99  the task starts with a non-empty list
JobBegin ==
    /\ created > 0
    /\ job.pc = "idle"
    /\ ~LoopBlocked
    /\ messages # <<>>
    /\ created' = created - 1
    /\ job' = Begun
    /\ UNCHANGED <<messages, word_counter, update_queue, handler, outbox, pend, arrivals,
                   reported, calls, fired, failedPending, lastReport, accepted, tin, tpre,
                   xin, xout, env>>

\* bot.py:99-113  the message is composed, context.bot raises
JobGenerate ==
    /\ job.pc = "generate"
    /\ \E raised \in BOOLEAN, net \in {"ok", "fail"} :
           calls' = Push(Call("cron", Composed(job, raised), net, "", TRUE,
                              messages, word_counter, outbox))
    /\ failedPending' = messages
    /\ job' = Idle
    /\ UNCHANGED <<messages, word_counter, update_queue, handler, created, outbox, pend,
                   arrivals, reported, fired, lastReport, accepted, tin, tpre,
                   xin, xout, env>>

\* bot.py:95, 120  the task starts with an empty list, context.bot raises
JobNotice ==
    /\ created > 0
    /\ job.pc = "idle"
    /\ ~LoopBlocked
    /\ messages = <<>>
    /\ created' = created - 1
    /\ \E net \in {"ok", "fail"} :
           calls' = Push(Call("cron", Begun, net, "", TRUE, messages, word_counter, outbox))
    /\ UNCHANGED <<messages, word_counter, update_queue, handler, job, outbox, pend,
                   arrivals, reported, fired, failedPending, lastReport, accepted, tin, tpre,
                   xin, xout, env>>

----------------------------------------------------------------------------

Next ==
    \/ ArriveText
    \/ ArriveCommand
    \/ CronFire
    \/ HandleRelevant
    \/ HandleIgnored
    \/ DropUnhandled
    \/ ManualBegin
    \/ ManualGenerate
    \/ SendDelivered
    \/ SendFailed
    \/ NoticeDelivered
    \/ NoticeFailed
    \/ JobBegin
    \/ JobGenerate
    \/ JobNotice

Spec == Init /\ [][Next]_vars

----------------------------------------------------------------------------
(* Configuration specification: the process is started with any subset of   *)
(* the identifiers in its environment.  os.getenv of bot.py:18-19 has a      *)
(* default and main (bot.py:127-143) tests neither identifier, so the        *)
(* process starts in every case.                                            *)

ConfigInit == env \in SUBSET Environment /\ Started

ConfigSpec == ConfigInit /\ [][Next]_vars

----------------------------------------------------------------------------
(* Tally specification: update_word_counter and most_common on their own *)

\* contents of at most MaxContentLen symbols, some with the other keywords, and
\* one with the same keyword twice
TallyContents ==
    SeqsUpTo({"AI", "x", " "}, MaxContentLen)
        \cup {<<"BTC">>, <<"ETH">>, <<"Layer2">>, <<"BTC", " ", "AI">>, <<"AI", " ", "AI">>}

TallyInit == Init

TallyFrame ==
    UNCHANGED <<messages, update_queue, handler, created, job, outbox, pend,
                arrivals, reported, calls, fired, failedPending, lastReport, accepted,
                xin, xout, env>>

\* bot.py:64  update_word_counter(content)
TallyUpdate ==
    \E content \in TallyContents :
        LET counted == update_word_counter(word_counter, content)
        IN  /\ CounterTotal(counted) <= MaxTally
            /\ tpre' = word_counter
            /\ tin' = content
            /\ word_counter' = counted
            /\ TallyFrame

\* bot.py:118  word_counter.clear()
TallyClear ==
    /\ word_counter # <<>>
    /\ word_counter' = <<>>
    /\ tpre' = <<>>
    /\ tin' = <<>>
    /\ TallyFrame

TallyNext == TallyUpdate \/ TallyClear

TallySpec == TallyInit /\ [][TallyNext]_vars

----------------------------------------------------------------------------
(* Extract specification: extract_tweet_info on its own.  A description is  *)
(* typed token by token, with extra blanks, and the forwarded post made of  *)
(* it is given to extract_tweet_info.                                       *)

ExtractInit == Init

Words(d) == SelectSeq(d, LAMBDA sym : ~IsSpace(sym))

Blanks(d) == SelectSeq(d, IsSpace)

ExtraBlanks(d) ==
    Len(Blanks(d)) - (IF Len(Words(d)) > 0 THEN Len(Words(d)) - 1 ELSE 0)

ExtractFrame ==
    UNCHANGED <<messages, word_counter, update_queue, handler, created, job, outbox, pend,
                arrivals, reported, calls, fired, failedPending, lastReport, accepted,
                tin, tpre, env>>

\* the next token of the description, after a blank when it is not the first
XToken ==
    /\ Len(Words(xin)) < MaxTokens
    /\ xin' = xin \o (IF Len(Words(xin)) > 0 THEN <<" ">> ELSE <<>>)
                  \o <<"w" \o ToString(Len(Words(xin)) + 1)>>
    /\ UNCHANGED xout
    /\ ExtractFrame

\* one more blank
XBlank ==
    /\ ExtraBlanks(xin) < MaxExtraBlanks
    /\ xin' = Append(xin, " ")
    /\ UNCHANGED xout
    /\ ExtractFrame

\* bot.py:61  extract_tweet_info(text)
XExtract ==
    /\ xout' = [desc |-> xin, res |-> extract_tweet_info(Fwd(xin))]
    /\ UNCHANGED xin
    /\ ExtractFrame

ExtractNext == XToken \/ XBlank \/ XExtract

ExtractSpec == ExtractInit /\ [][ExtractNext]_vars

----------------------------------------------------------------------------
(* Claims about the keyword tally, checked under TallySpec *)

Top == most_common(word_counter, TopN)

CounterIndex(c, w) == CHOOSE i \in 1..Len(c) : c[i].word = w

ListedBefore(a, b) ==
    \/ a.count > b.count
    \/ /\ a.count = b.count
       /\ CounterIndex(word_counter, a.word) < CounterIndex(word_counter, b.word)

Occurrences(content, k) ==
    Cardinality({i \in 1..Len(content) :
                    /\ content[i] = k
                    /\ (i = 1 \/ content[i - 1] = " ")
                    /\ (i = Len(content) \/ content[i + 1] = " ")})

\* C10: one update_word_counter call adds to each keyword's count the number
\* of tokens of the content that equal it, adds no key outside the vocabulary,
\* and changes nothing on empty content.
KeywordAccumulation ==
    /\ \A k \in Range(common_keywords) :
           CounterGet(word_counter, k) = CounterGet(tpre, k) + Occurrences(tin, k)
    /\ CounterKeys(word_counter) \subseteq Range(common_keywords)
    /\ (tin = <<>> => word_counter = tpre)

\* a content with the same keyword twice, applied to a tally that already
\* counts the keyword
KeywordAccumulationWitness ==
    /\ \E k \in Range(common_keywords) :
           /\ Occurrences(tin, k) = 2
           /\ CounterGet(tpre, k) >= 1
           /\ CounterGet(word_counter, k) = CounterGet(tpre, k) + 2

\* C19: every key of word_counter is in common_keywords and has a count of at
\* least 1, no key is held twice, and so every entry of the top-keyword line
\* is a keyword with a count of at least 1.
TallyWellFormed ==
    /\ \A i \in 1..Len(word_counter) :
           /\ word_counter[i].word \in Range(common_keywords)
           /\ word_counter[i].count >= 1
           /\ \A j \in 1..Len(word_counter) :
                  word_counter[j].word = word_counter[i].word => j = i
    /\ \A e \in Range(most_common(word_counter, TopN)) :
           e.word \in Range(common_keywords) /\ e.count >= 1

\* the tally holds two keywords, one of them counted twice, and the last
\* content, a word outside common_keywords, left it as it was
TallyWellFormedWitness ==
    /\ Len(word_counter) = 2
    /\ \E i \in 1..2 : word_counter[i].count = 2
    /\ tin = <<"x">>
    /\ word_counter = tpre

----------------------------------------------------------------------------
(* Claims about the reporter, checked under Spec *)

Finished == Range(calls)

\* C1: when the dispatch of the report of a non-empty list fails, messages and
\* word_counter are after the call what they were before it.
RetrySafety ==
    \A c \in Finished :
        (c.raised /\ c.pre_messages # <<>>)
            => /\ c.post_messages = c.pre_messages
               /\ c.post_counter = c.pre_counter

\* send_message raised in an invocation that started with lines and counts
RetrySafetyWitness ==
    \E c \in Finished :
        /\ c.trigger = "manual"
        /\ c.net = "fail"
        /\ c.raised
        /\ c.pre_messages # <<>>
        /\ c.pre_counter # <<>>

PendNos == {pend[i].no : i \in 1..Len(pend)}

\* C2: an accepted message is either pending and in no delivered report, or
\* not pending and in exactly one; a message that is in no delivered report
\* is still pending after the reset.
NoMessageLostOrDoubled ==
    /\ Len(pend) = Len(messages)
    /\ \A n \in DOMAIN reported :
           IF n \in accepted
           THEN \/ n \in PendNos /\ reported[n] = 0
                \/ n \notin PendNos /\ reported[n] = 1
           ELSE n \notin PendNos /\ reported[n] = 0

\* a report was delivered, and a message that arrived while send_summary was
\* suspended in send_message is pending after the reset
NoMessageLostWitness ==
    /\ lastReport.lines # <<>>
    /\ \E n \in PendNos : lastReport.begun < n /\ n <= lastReport.ended
    /\ \E m \in accepted : reported[m] = 1

\* C3 as stated: no two send_summary invocations are in progress at the same time.
NoOverlappingReports ==
    handler.pc = "idle" \/ job.pc = "idle"

\* C4: an invocation that starts with a non-empty list ends delivered and
\* cleared, or not delivered and unchanged.
DeliveredAndClearedOrIntact ==
    \A c \in Finished :
        c.pre_messages # <<>>
            => \/ /\ c.delivered = 1
                  /\ ~c.raised
                  /\ c.sent = c.report
                  /\ c.post_messages = <<>>
                  /\ c.post_counter = <<>>
               \/ /\ c.delivered = 0
                  /\ c.raised
                  /\ c.sent = ""
                  /\ c.post_messages = c.pre_messages
                  /\ c.post_counter = c.pre_counter

\* one invocation failed and left the lines, the next one delivered them
DeliveredAndClearedOrIntactWitness ==
    /\ Len(calls) = 2
    /\ calls[1].pre_messages # <<>> /\ calls[1].delivered = 0
    /\ calls[2].pre_messages # <<>> /\ calls[2].delivered = 1
    /\ messages = <<>> /\ word_counter = <<>>

\* C5 as stated: a scheduled and a manual invocation that start from the same
\* lists and get the same summarizer and transport outcomes send the same
\* message and leave the same state.
TriggersBehaveAlike ==
    \A c, d \in Finished :
        (/\ c.trigger = "cron" /\ d.trigger = "manual"
         /\ c.pre_messages = d.pre_messages
         /\ c.pre_counter = d.pre_counter
         /\ c.ai = d.ai
         /\ c.net = d.net)
            => /\ c.sent = d.sent
               /\ c.raised = d.raised
               /\ c.post_messages = d.post_messages
               /\ c.post_counter = d.post_counter

RECURSIVE TotalOccurrences(_, _)
\* number of tokens equal to k in a list of contents
TotalOccurrences(contents, k) ==
    IF contents = <<>> THEN 0
    ELSE Occurrences(Head(contents), k) + TotalOccurrences(Tail(contents), k)

\* C6: the lines pending at a failed dispatch stay at the head of messages,
\* and the next delivered report starts with them, in their order, counts all
\* its lines and gives for each listed keyword its occurrences in all of them.
RetryReportsSameData ==
    /\ IsPrefix(failedPending, messages)
    /\ IsPrefix(lastReport.retried, lastReport.lines)
    /\ lastReport.total = Len(lastReport.lines)
    /\ Len(lastReport.contents) = Len(lastReport.lines)
    /\ \A i \in 1..Len(lastReport.top) :
           lastReport.top[i].count
               = TotalOccurrences(lastReport.contents, lastReport.top[i].word)
    /\ \A k \in Range(common_keywords) :
           TotalOccurrences(lastReport.contents, k) > 0
               => \/ \E i \in 1..Len(lastReport.top) : lastReport.top[i].word = k
                  \/ Len(lastReport.top) = TopN

\* a delivered report retried the lines of a failed dispatch and has lines
\* accepted since
RetryReportsSameDataWitness ==
    /\ lastReport.retried # <<>>
    /\ Len(lastReport.lines) > Len(lastReport.retried)
    /\ lastReport.top # <<>>

\* C7 as stated: two invocations in a row with an empty list, the transport
\* answering both times, both send the notice, neither raises, and both leave
\* the state empty.
EmptyPeriodIdempotent ==
    (/\ Len(calls) = 2
     /\ \A i \in 1..2 : calls[i].pre_messages = <<>> /\ calls[i].net = "ok")
        => \A i \in 1..2 :
               /\ calls[i].sent = NoMessagesNotice
               /\ ~calls[i].raised
               /\ calls[i].post_messages = <<>>
               /\ calls[i].post_counter = <<>>

\* the message send_summary composes when the summarizer failed
ReportWithFallback(msgs, counter) ==
    summary_message(summary_text(msgs), Len(msgs), most_common_words(counter), FallbackMarker)

\* C8: a failure of the summarizer does not end send_summary: the message is
\* composed with the fallback marker and handed to send_message, and when it
\* is delivered the lists are cleared.
SummarizerFailureNeverAborts ==
    /\ \A co \in {handler, job} :
           co.ai = "fail"
               => /\ co.pc = "await_send"
                  /\ co.text = ReportWithFallback(co.start.messages, co.start.word_counter)
    /\ \A c \in Finished :
           c.ai = "fail"
               => /\ c.report = ReportWithFallback(c.pre_messages, c.pre_counter)
                  /\ c.delivered = 1
                         => /\ c.sent = c.report
                            /\ c.post_messages = <<>>
                            /\ c.post_counter = <<>>

\* the summarizer failed, the report was delivered and the lists cleared
SummarizerFailureWitness ==
    \E c \in Finished :
        /\ c.ai = "fail"
        /\ c.delivered = 1
        /\ c.pre_messages # <<>>
        /\ c.post_messages = <<>>

----------------------------------------------------------------------------
(* Claims about intake, checked under Spec *)

\* a text message of the monitored group that is a forwarded post
Relevant(u) == u.kind = "text" /\ u.chat = GROUP_ID /\ MatchEnds(u.text) # {}

\* this step takes the update at the head of the queue to its handler
TakesHead == CanFetch /\ update_queue' = Tail(update_queue)

MonotonicGrowthStep ==
    IF messages' = messages
    THEN ~(TakesHead /\ Relevant(Head(update_queue)))
    ELSE IF messages' = <<>>
    THEN handler.pc = "await_send" /\ Len(outbox') = Len(outbox) + 1
    ELSE /\ TakesHead
         /\ Relevant(Head(update_queue))
         /\ messages' = Append(messages, extract_tweet_info(Head(update_queue).text)[1])

\* C11: between two resets every relevant message of the group appends exactly
\* one display line at the end of messages; the list changes in no other way,
\* and it is emptied only by a delivered report.
MonotonicGrowth == [][MonotonicGrowthStep]_vars

\* two lines are pending, in the order of their arrival
MonotonicGrowthWitness ==
    /\ Len(messages) = 2
    /\ Len(pend) = 2
    /\ pend[1].no < pend[2].no

\* a text message of another chat, or one that is no forwarded post
Ignored(u) == u.kind = "text" /\ (u.chat # GROUP_ID \/ MatchEnds(u.text) = {})

IgnoredFrameStep ==
    (TakesHead /\ Ignored(Head(update_queue)))
        => /\ messages' = messages
           /\ word_counter' = word_counter
           /\ outbox' = outbox

\* C13: a message of another chat, or one whose text is no forwarded post,
\* leaves messages and word_counter as they are and sends nothing.
IgnoredFrame == [][IgnoredFrameStep]_vars

\* the second message was ignored while a line and its counts were pending
IgnoredFrameWitness ==
    /\ arrivals = 2
    /\ update_queue = <<>>
    /\ accepted = {1}
    /\ Len(messages) = 1
    /\ word_counter # <<>>

\* C14: whenever messages is empty, word_counter is empty: an invocation that
\* finds no lines and clears nothing leaves no counts behind.
EmptyDigestEmptyTally ==
    /\ messages = <<>> => word_counter = <<>>
    /\ \A c \in Finished :
           c.pre_messages = <<>> => c.pre_counter = <<>> /\ c.post_counter = <<>>

\* a report with counts was delivered, and the next invocation found no lines
EmptyDigestEmptyTallyWitness ==
    /\ lastReport.top # <<>>
    /\ Len(calls) = 2
    /\ calls[1].delivered = 1 /\ calls[1].pre_counter # <<>>
    /\ calls[2].pre_messages = <<>>
    /\ messages = <<>>

----------------------------------------------------------------------------
(* Claims about extract_tweet_info, checked under ExtractSpec *)

RECURSIVE SpaceJoined(_)
\* the words with one blank between neighbours
SpaceJoined(w) ==
    IF w = <<>> THEN ""
    ELSE IF Len(w) = 1 THEN w[1]
    ELSE SpaceJoined(SubSeq(w, 1, Len(w) - 1)) \o " " \o w[Len(w)]

RECURSIVE AsString(_)
\* the description as it was typed
AsString(d) == IF d = <<>> THEN "" ELSE Head(d) \o AsString(Tail(d))

\* what follows the title in a display line
AfterTitle == " -- @u [link] (http://u)"

FirstWords(d) == SubSeq(Words(d), 1, Min(TitleWords, Len(Words(d))))

\* single blanks between the tokens, none before the first or after the last
SingleSpaced(d) == ExtraBlanks(d) = 0 /\ d # <<>> /\ ~IsSpace(d[1]) /\ ~IsSpace(d[Len(d)])

\* C12 as stated: the title is the first 10 tokens joined by single spaces, it
\* is the description itself when that has 10 tokens or fewer, and the
\* content is the whole description.
TitleIsFirstTenOrDescription ==
    xout.res[1] # None
        => /\ xout.res[1] = SpaceJoined(FirstWords(xout.desc)) \o AfterTitle
           /\ (Len(Words(xout.desc)) <= TitleWords
                  => xout.res[1] = AsString(xout.desc) \o AfterTitle)
           /\ xout.res[2] = xout.desc

\* C12 amended: the title is the first 10 tokens joined by single spaces; it is
\* the description itself when that has 10 tokens or fewer, separated by
\* single blanks, and no blank at either end; the content is the whole
\* description.
TitleIsFirstTen ==
    /\ (xout.res[1] # None <=> xout.desc # <<>>)
    /\ xout.res[1] # None
        => /\ xout.res[1] = SpaceJoined(FirstWords(xout.desc)) \o AfterTitle
           /\ ((Len(Words(xout.desc)) <= TitleWords /\ SingleSpaced(xout.desc))
                  => xout.res[1] = AsString(xout.desc) \o AfterTitle)
           /\ xout.res[2] = xout.desc

\* a description of more than 10 tokens with a doubled blank was extracted
TitleWitness ==
    /\ xout.res[1] # None
    /\ Len(Words(xout.desc)) > TitleWords
    /\ ExtraBlanks(xout.desc) > 0
    /\ Len(xout.res[2]) = Len(xout.desc)

----------------------------------------------------------------------------
(* Claims about the content of the report, checked under Spec *)

RECURSIVE Numbered(_)
\* the lines numbered 1., 2., ... one per line
Numbered(lines) ==
    IF lines = <<>> THEN ""
    ELSE IF Len(lines) = 1 THEN "1. " \o lines[1]
    ELSE Numbered(SubSeq(lines, 1, Len(lines) - 1))
             \o "\n" \o ToString(Len(lines)) \o ". " \o lines[Len(lines)]

RECURSIVE Counted(_)
\* the tally of a period with these contents
Counted(contents) ==
    IF contents = <<>> THEN <<>>
    ELSE update_word_counter(Counted(SubSeq(contents, 1, Len(contents) - 1)),
                             contents[Len(contents)])

\* C15: a delivered report of a non-empty list is one message to
\* SUMMARY_CHAT_ID; its body is the pending lines numbered from 1 in their
\* order, its total is their number, and its keyword counts are the
\* occurrences of the keywords in the contents of these messages.
ReportMatchesState ==
    \A c \in Finished :
        (c.pre_messages # <<>> /\ c.delivered > 0)
            => /\ c.delivered = 1
               /\ c.outgoing[1].chat = SUMMARY_CHAT_ID
               /\ Len(c.pre_contents) = Len(c.pre_messages)
               /\ \A k \in Range(common_keywords) :
                      CounterGet(c.pre_counter, k) = TotalOccurrences(c.pre_contents, k)
               /\ CounterKeys(c.pre_counter) \subseteq Range(common_keywords)
               /\ c.outgoing[1].text
                      = summary_message(Numbered(c.pre_messages), Len(c.pre_messages),
                                        most_common_words(Counted(c.pre_contents)),
                                        generate_summary("", c.ai = "fail"))

\* a report of two lines with counts was delivered
ReportMatchesStateWitness ==
    \E c \in Finished :
        /\ c.delivered = 1
        /\ Len(c.pre_messages) = 2
        /\ c.pre_counter # <<>>
        /\ c.outgoing # <<>>

RECURSIVE Lines(_)
\* the contents as texts, one per line
Lines(contents) ==
    IF contents = <<>> THEN ""
    ELSE IF Len(contents) = 1 THEN AsString(contents[1])
    ELSE Lines(SubSeq(contents, 1, Len(contents) - 1))
             \o "\n" \o AsString(contents[Len(contents)])

\* C16 as stated: the summarizer is asked about the contents of the messages of
\* the period, one per pending line, joined by newlines in their order, and
\* not about the numbered display lines.
PromptFromRawContents ==
    \A c \in Finished :
        c.ai # "none"
            => /\ Len(c.pre_contents) = Len(c.pre_messages)
               /\ c.prompt = user_prompt(Lines(c.pre_contents))
               /\ c.prompt # user_prompt(Numbered(c.pre_messages))

----------------------------------------------------------------------------
(* Claims about intake after a failed report, checked under Spec *)

\* the event loop can go on: the update at the head of the queue can be
\* handled, or a coroutine can take its next step
LoopCanStep ==
    \/ CanFetch
    \/ handler.pc = "generate"
    \/ job.pc = "generate"
    \/ handler.pc \in {"await_send", "await_notice"} /\ ~LoopBlocked

SomeReportFailed == \E c \in Finished : c.raised

FailedReportStep ==
    /\ (calls' # calls /\ calls'[Len(calls')].net = "fail")
           => /\ calls'[Len(calls')].raised
              /\ calls'[Len(calls')].trigger = "manual" => handler'.pc = "idle"
              /\ calls'[Len(calls')].trigger = "cron" => job'.pc = "idle"
    /\ (SomeReportFailed /\ update_queue # <<>>) => LoopCanStep
    /\ (SomeReportFailed /\ TakesHead /\ Relevant(Head(update_queue)))
           => LET u == Head(update_queue)
                  info == extract_tweet_info(u.text)
              IN  /\ messages' = Append(messages, info[1])
                  /\ word_counter' = update_word_counter(word_counter, info[2])
                  /\ accepted' = accepted \cup {u.no}

\* C17: an invocation whose dispatch fails raises and ends; afterwards the
\* updates that wait are still handled, and every relevant message is appended
\* to messages and counted in word_counter.
FailedReportKeepsIntake == [][FailedReportStep]_vars

\* the last invocation failed at send_message, and a message was accepted
\* and counted after it
FailedReportKeepsIntakeWitness ==
    /\ calls # <<>>
    /\ LET c == calls[Len(calls)]
       IN  /\ c.trigger = "manual"
           /\ c.net = "fail"
           /\ c.raised
           /\ c.pre_messages # <<>>
           /\ Len(messages) > Len(c.post_messages)
           /\ word_counter # c.post_counter

----------------------------------------------------------------------------
(* Claims about the configuration, checked under ConfigSpec *)

\* C18 as stated: with GROUP_ID or SUMMARY_CHAT_ID missing the process fails
\* during startup: it accepts no message and attempts no dispatch, none to
\* a default identifier.
ConfigErrorFatalAtStartup ==
    env # Environment
        => /\ handler.pc \notin {"await_send", "await_notice"}
           /\ accepted = {}
           /\ \A c \in Finished : c.trigger # "manual"
           /\ \A i \in 1..Len(outbox) : outbox[i].chat # DefaultId

====
